---- MODULE Spec2Model ----
(***************************************************************************)
(* Model of the two skill installers of nextjs-architecture-skills:        *)
(*   bin/install.js  - copies the bundled skills/ directory (fs.cpSync)    *)
(*   install.sh      - shallow-clones the repository into a temporary      *)
(*                     directory and copies skills/*/ from it (cp -r)      *)
(* The state is the filesystem plus the position and the locals of every   *)
(* installer process.  A path is a sequence of names, the filesystem a     *)
(* function from the existing paths to nodes (directory or file+content).  *)
(***************************************************************************)
EXTENDS Integers, Sequences, FiniteSets, TLC

VARIABLES fs, env, remote, procs, edits

vars == <<fs, env, remote, procs, edits>>

(* ------------------------------ bounds -------------------------------- *)

\* longest argument list handed to an installer
MaxArgs == 2
\* number of installer runs in one behaviour (run p+1 starts after run p ended)
MaxRuns == 2
\* number of manual edits of installed files made between runs
MaxEdits == 1

Procs == 1..MaxRuns

(* ------------------------------- paths -------------------------------- *)

Unset == <<"<unset>">>
Root == <<>>
CwdDir == <<"proj">>
HomeDir == <<"home">>
TmpRoot == <<"tmp">>
PkgDir == <<"pkg">>
TmpNames == {"tmp.A", "tmp.B"}
TmpIndex(n) == IF n = "tmp.A" THEN 1 ELSE 2

\* names that start with a dot (bash's * does not match them)
DotNames == {".hid"}
\* the names of the model in the order bash sorts a glob by (the locale's
\* collation; this is the order of the C locale, "." before upper case before
\* lower case; the lower-case names keep this order in every locale)
NameOrder == <<".hid", "README.md", "alpha", "beta", "other">>

DirNode == [type |-> "dir", data |-> ""]
FileNode(c) == [type |-> "file", data |-> c]

IsPrefix(a, b) == Len(a) <= Len(b) /\ SubSeq(b, 1, Len(a)) = a
Suffix(p, n) == SubSeq(p, n + 1, Len(p))
Parent(p) == SubSeq(p, 1, Len(p) - 1)
Basename(p) == p[Len(p)]

Exists(f, p) == p \in DOMAIN f
IsDir(f, p) == Exists(f, p) /\ f[p].type = "dir"
IsFile(f, p) == Exists(f, p) /\ f[p].type = "file"

\* the paths of f at or below d
Under(f, d) == {p \in DOMAIN f : IsPrefix(d, p)}
\* the tree at d, as a function from the paths relative to d
TreeAt(f, d) == [r \in {Suffix(p, Len(d)) : p \in Under(f, d)} |-> f[d \o r]]
\* tree t placed at path at
Graft(t, at) == [p \in {at \o r : r \in DOMAIN t} |-> t[Suffix(p, Len(at))]]
\* names of the entries directly under d
Children(f, d) == {p[Len(d) + 1] : p \in {q \in Under(f, d) : Len(q) = Len(d) + 1}}
ChildDirs(f, d) == {n \in Children(f, d) : IsDir(f, d \o <<n>>)}
\* f without everything at or below d
Remove(f, d) == [p \in DOMAIN f \ Under(f, d) |-> f[p]]

(* ------------------------ filesystem primitives ----------------------- *)

Prefixes(p) == {SubSeq(p, 1, k) : k \in 0..Len(p)}

\* a changed MkdirP: mkdir without -p / without recursive, which fails when the
\* path exists or its parent is missing
MkdirPlain(f, path) ==
  IF ~Exists(f, path) /\ IsDir(f, Parent(path))
  THEN [ok |-> TRUE, fs |-> (path :> DirNode) @@ f]
  ELSE [ok |-> FALSE, fs |-> f]

\* mkdir -p path / fs.mkdirSync(path, {recursive: true}): creates the missing
\* directories of the path; fails, changing nothing, when a component that
\* exists is not a directory.
MkdirP(f, path) ==
  IF \A q \in Prefixes(path) : Exists(f, q) => IsDir(f, q)
  THEN [ok |-> TRUE,
        fs |-> [p \in DOMAIN f \cup Prefixes(path) |->
                  IF p \in DOMAIN f THEN f[p] ELSE DirNode]]
  ELSE [ok |-> FALSE, fs |-> f]

\* relative paths of the tree at src
Rel(f, src) == {Suffix(p, Len(src)) : p \in Under(f, src)}
\* the entry r of src cannot be written at base: something of the other type is there
Conflict(f, src, base, r) ==
  Exists(f, base \o r) /\ f[base \o r].type # f[src \o r].type
\* r or a directory above it is in conflict
Blocked(f, src, base, r) == \E q \in Prefixes(r) : Conflict(f, src, base, q)
\* the entries R of src written at base: directories are created or kept with
\* what they hold, files are created or overwritten; nothing is removed
WriteTree(f, src, base, R) ==
  [p \in DOMAIN f \cup {base \o r : r \in R} |->
     IF \E r \in R : p = base \o r THEN f[src \o Suffix(p, Len(base))] ELSE f[p]]

\* fs.cpSync(src, dest, {recursive: true}) for a directory src: the entries of
\* src are written at dest itself (force defaults to true: files are
\* overwritten; entries of dest that src lacks stay).  It throws at the first
\* entry in conflict; the entries are visited depth first in the order readdir
\* gives, which the platform chooses, so the possible outcomes are: the
\* directories above the conflict c created, and any of their other subtrees
\* copied completely.
CpSyncOutcomes(f, src, dest) ==
  LET all == Rel(f, src)
      free == {r \in all : ~Blocked(f, src, dest, r)}
      first == {c \in all : Conflict(f, src, dest, c)
                            /\ \A q \in Prefixes(c) \ {c} : ~Conflict(f, src, dest, q)}
  IN IF first = {}
     THEN {[ok |-> TRUE, fs |-> WriteTree(f, src, dest, all)]}
     ELSE {[ok |-> FALSE, fs |-> WriteTree(f, src, dest, R)] :
            R \in {X \in SUBSET free :
                    \E c \in first :
                      /\ Prefixes(c) \ {c} \subseteq X
                      /\ \A r \in X : r # <<>> => Parent(r) \in X
                      /\ \A r \in X : ~IsPrefix(r, c) =>
                            \A s \in all : IsPrefix(r, s) => s \in X}}

\* all orders of a finite set
Perms(S) ==
  {s \in [1..Cardinality(S) -> S] : \A i, j \in 1..Cardinality(S) : i # j => s[i] # s[j]}

\* the orders in which cp visits the entries of tree t from entry rel down:
\* an entry before what it holds, the entries of a directory in the order the
\* filesystem lists them
RECURSIVE CpOrders(_, _), CpKidOrders(_, _, _)
CpOrders(t, rel) ==
  IF t[rel].type = "file" THEN {<<rel>>}
  ELSE LET kids == {q \in DOMAIN t : Len(q) = Len(rel) + 1 /\ IsPrefix(rel, q)}
       IN {<<rel>> \o w : w \in UNION {CpKidOrders(t, perm, 1) : perm \in Perms(kids)}}
CpKidOrders(t, perm, i) ==
  IF i > Len(perm) THEN {<<>>}
  ELSE {a \o b : a \in CpOrders(t, perm[i]), b \in CpKidOrders(t, perm, i + 1)}

\* GNU cp -r "src/" "dest" for a directory src whose entries cp visits in the
\* order ord: an existing directory dest receives the copy as
\* dest/<basename src>, a missing dest becomes the copy; an entry that would
\* replace a file by a directory ("cannot overwrite non-directory") or a
\* directory by a file ("cannot overwrite", for cannot overwrite directory) is
\* reported with a message of its own and skipped with everything below it,
\* the rest is still copied, and the exit status is then 1.
CpR(f, src, dest, ord) ==
  IF ~Exists(f, src) THEN [ok |-> FALSE, fs |-> f, msgs |-> <<"cannot stat">>]
  ELSE LET base == IF IsDir(f, dest) THEN dest \o <<Basename(src)>> ELSE dest
           R == {r \in Rel(f, src) : ~Blocked(f, src, base, r)}
           failed == SelectSeq(ord, LAMBDA r : /\ Conflict(f, src, base, r)
                                               /\ r = <<>> \/ ~Blocked(f, src, base, Parent(r)))
       IN [ok |-> R = Rel(f, src),
           fs |-> WriteTree(f, src, base, R),
           msgs |-> [i \in 1..Len(failed) |->
                      IF f[src \o failed[i]].type = "dir"
                      THEN "cannot overwrite non-directory" ELSE "cannot overwrite"]]
\* the orders in which cp can visit what is at src
CpVisits(f, src) ==
  IF Exists(f, src) THEN CpOrders(TreeAt(f, src), <<>>) ELSE {<<>>}

\* a changed ReaddirDirs: the entries are not filtered by isDirectory
ReaddirNoFilter(f, dir) == Perms(Children(f, dir))

\* fs.readdirSync(dir, {withFileTypes: true}).filter(isDirectory).map(name):
\* the directories directly under dir, dot names included, in readdir's order
ReaddirDirs(f, dir) == Perms(ChildDirs(f, dir))

\* a changed GlobDirs: nullglob is set, a pattern without a match expands to nothing
GlobDirsNullglob(f, dir) ==
  SelectSeq(NameOrder, LAMBDA n : n \in ChildDirs(f, dir) /\ n \notin DotNames)

\* the expansion of "dir"/*/ : the directories directly under dir whose name does
\* not start with a dot, sorted; the pattern itself when nothing matches
\* (nullglob is not set)
GlobDirs(f, dir) ==
  LET m == SelectSeq(NameOrder, LAMBDA n : n \in ChildDirs(f, dir) /\ n \notin DotNames)
  IN IF m = <<>> THEN <<"*">> ELSE m

(* ------------------------- payloads and inputs ------------------------ *)

NoTree == [p \in {} |-> DirNode]

AlphaTree ==
  (<<>> :> DirNode) @@ (<<"SKILL.md">> :> FileNode("alpha-v2"))
  @@ (<<"ref">> :> DirNode) @@ (<<"ref", "x.md">> :> FileNode("x"))
BetaTree == (<<>> :> DirNode) @@ (<<"SKILL.md">> :> FileNode("beta"))
HidTree == (<<>> :> DirNode) @@ (<<"SKILL.md">> :> FileNode("hid"))

\* a snapshot of the repository without skills/ (bin/install.js and install.sh)
RepoBase ==
  (<<>> :> DirNode) @@ (<<"bin">> :> DirNode)
  @@ (<<"bin", "install.js">> :> FileNode("js")) @@ (<<"install.sh">> :> FileNode("sh"))
\* a snapshot with skills/ holding the skill directories S and, with readme, a file
Repo(S, readme) ==
  RepoBase @@ (<<"skills">> :> DirNode)
  @@ (IF "alpha" \in S THEN Graft(AlphaTree, <<"skills", "alpha">>) ELSE NoTree)
  @@ (IF "beta" \in S THEN Graft(BetaTree, <<"skills", "beta">>) ELSE NoTree)
  @@ (IF ".hid" \in S THEN Graft(HidTree, <<"skills", ".hid">>) ELSE NoTree)
  @@ (IF readme THEN <<"skills", "README.md">> :> FileNode("readme") ELSE NoTree)

\* the payloads tried: no skills/, an empty one, one holding only a file, two
\* skills beside a file, a skill beside a dot directory, a dot directory alone
Payloads ==
  {RepoBase, Repo({}, FALSE), Repo({}, TRUE),
   Repo({"alpha", "beta"}, TRUE), Repo({"alpha", ".hid"}, FALSE),
   Repo({".hid"}, FALSE)}

\* what a base directory (the working directory, the home directory) holds
\* before the first run, relative to it
DestRoot == (<<".claude">> :> DirNode) @@ (<<".claude", "skills">> :> DirNode)
\* an earlier version of alpha with a file the payload no longer has, and a
\* skill that is not of this package
DestPrev ==
  DestRoot @@ (<<".claude", "skills", "alpha">> :> DirNode)
  @@ (<<".claude", "skills", "alpha", "SKILL.md">> :> FileNode("alpha-v1"))
  @@ (<<".claude", "skills", "alpha", "old.md">> :> FileNode("old"))
  @@ (<<".claude", "skills", "other">> :> DirNode)
  @@ (<<".claude", "skills", "other", "SKILL.md">> :> FileNode("other"))
\* a regular file where the skill beta is to go
DestFile == DestRoot @@ (<<".claude", "skills", "beta">> :> FileNode("f"))
\* a regular file where alpha's directory ref is to go
DestInner ==
  DestRoot @@ (<<".claude", "skills", "alpha">> :> DirNode)
  @@ (<<".claude", "skills", "alpha", "ref">> :> FileNode("f"))
\* a regular file where the directory .claude is to go
DestBlocked == <<".claude">> :> FileNode("f")

DestInits == {NoTree, DestPrev, DestFile, DestInner, DestBlocked}

\* HOME and USERPROFILE, each set or not
Envs ==
  {[HOME |-> HomeDir, USERPROFILE |-> Unset],
   [HOME |-> Unset, USERPROFILE |-> Unset],
   [HOME |-> Unset, USERPROFILE |-> HomeDir]}

ArgWords == {"--global", "-g"}
ArgLists == UNION {[1..n -> ArgWords] : n \in 0..MaxArgs}

(* ------------------------------ processes ----------------------------- *)

IdleProc ==
  [kind |-> "none", pc |-> "idle", argv |-> <<>>, isGlobal |-> FALSE,
   target |-> Unset, tmpdir |-> Unset, trap |-> FALSE, skills |-> <<>>, idx |-> 1,
   installed |-> 0, out |-> <<>>, err |-> <<>>, rc |-> 0, status |-> -1,
   fs0 |-> NoTree, fsEnd |-> NoTree, tried |-> <<>>, fetches |-> 0,
   cpdest |-> Unset, cpq |-> <<>>, cpnew |-> FALSE, cpmade |-> {}, cpfail |-> FALSE,
   gitq |-> <<>>, rmcur |-> Unset, said |-> 0]

\* the state before the first run, for an environment of E, a payload of P
\* and a destination of D
InitFrom(E, P, D) ==
  /\ env \in E
  /\ remote \in P
  /\ \E d \in D :
       fs = (Root :> DirNode) @@ (CwdDir :> DirNode) @@ (HomeDir :> DirNode)
            @@ (TmpRoot :> DirNode) @@ Graft(remote, PkgDir)
            @@ Graft(d, CwdDir) @@ Graft(d, HomeDir)
  /\ procs = [p \in Procs |-> IdleProc]
  /\ edits = 0

Init == InitFrom(Envs, Payloads, DestInits)

Running(p) == procs[p].pc \notin {"idle", "done"}
Done(p) == procs[p].pc = "done"

Set(p, r) == procs' = [procs EXCEPT ![p] = r]

\* the process ends with the given status, leaving the filesystem f
Exit(r, st, f) == [r EXCEPT !.pc = "done", !.status = st, !.fsEnd = f]

\* a command is started: runs follow one another, and a later run repeats the
\* arguments of the first
Start(p, k, a) ==
  /\ procs[p].pc = "idle"
  /\ \A q \in Procs : ~Running(q)
  /\ \A q \in Procs : q < p => Done(q)
  /\ p > 1 => a = procs[1].argv
  /\ Set(p, [procs[p] EXCEPT !.kind = k, !.argv = a, !.fs0 = fs,
                             !.pc = IF k = "js" THEN "js_resolve" ELSE "sh_args"])
  /\ UNCHANGED <<fs, env, remote, edits>>

(* ---------------------------- bin/install.js -------------------------- *)

\* a changed Includes: only the first argument is looked at
IncludesFirstOnly(a, w) == Len(a) > 0 /\ a[1] = w

\* args.includes("--global")
Includes(a, w) == \E i \in 1..Len(a) : a[i] = w

\* process.env.HOME || process.env.USERPROFILE
JsHome == IF env.HOME # Unset THEN env.HOME ELSE env.USERPROFILE

skillsSource == PkgDir \o <<"skills">>

\* lines 6-14: isGlobal, home, targetBase; path.join throws a TypeError on an
\* undefined home, which ends the process with status 1
JsResolve(p) ==
  LET r == procs[p]
      g == Includes(r.argv, "--global")
  IN /\ r.pc = "js_resolve"
     /\ IF g /\ JsHome = Unset
        THEN Set(p, Exit([r EXCEPT !.isGlobal = g,
                                   !.err = @ \o <<<<"TypeError", "path">>>>], 1, fs))
        ELSE Set(p, [r EXCEPT !.isGlobal = g,
                              !.target = (IF g THEN JsHome ELSE CwdDir)
                                         \o <<".claude", "skills">>,
                              !.pc = "js_exists"])
     /\ UNCHANGED <<fs, env, remote, edits>>

\* lines 16-19
JsExists(p) ==
  LET r == procs[p]
  IN /\ r.pc = "js_exists"
     /\ IF ~Exists(fs, skillsSource)
        THEN Set(p, Exit([r EXCEPT !.err = @ \o <<<<"Error: skills/ directory not found at",
                                                    skillsSource>>>>], 1, fs))
        ELSE Set(p, [r EXCEPT !.pc = "js_readdir"])
     /\ UNCHANGED <<fs, env, remote, edits>>

\* lines 21-29; readdirSync throws on a skillsSource that is not a directory,
\* and the uncaught exception ends the process with status 1
JsReaddir(p) ==
  LET r == procs[p]
  IN /\ r.pc = "js_readdir"
     /\ \E dirs \in ReaddirDirs(fs, skillsSource) :
          IF ~IsDir(fs, skillsSource)
          THEN Set(p, Exit([r EXCEPT !.err = @ \o <<<<"Error", "scandir">>>>], 1, fs))
          ELSE IF Len(dirs) = 0
          THEN Set(p, Exit([r EXCEPT !.err = @ \o <<<<"Error: No skill directories found in",
                                                      skillsSource>>>>], 1, fs))
          ELSE Set(p, [r EXCEPT !.skills = dirs, !.pc = "js_mkdir"])
     /\ UNCHANGED <<fs, env, remote, edits>>

\* a changed JsMkdir: the destination root is emptied before it is created
JsMkdirCleans(p) ==
  LET r == procs[p]
      m == MkdirP(Remove(fs, r.target), r.target)
  IN /\ r.pc = "js_mkdir"
     /\ fs' = m.fs
     /\ IF m.ok
        THEN Set(p, [r EXCEPT !.pc = "js_banner"])
        ELSE Set(p, Exit([r EXCEPT !.err = @ \o <<<<"Error", "mkdir">>>>], 1, m.fs))
     /\ UNCHANGED <<env, remote, edits>>

\* line 31; an uncaught exception ends the process with status 1
JsMkdir(p) ==
  LET r == procs[p]
      m == MkdirP(fs, r.target)
  IN /\ r.pc = "js_mkdir"
     /\ fs' = m.fs
     /\ IF m.ok
        THEN Set(p, [r EXCEPT !.pc = "js_banner"])
        ELSE Set(p, Exit([r EXCEPT !.err = @ \o <<<<"Error", "mkdir">>>>], 1, m.fs))
     /\ UNCHANGED <<env, remote, edits>>

\* lines 33-42
JsBanner(p) ==
  LET r == procs[p]
  IN /\ r.pc = "js_banner"
     /\ Set(p, [r EXCEPT !.out = @ \o << <<>>,
                           <<IF r.isGlobal
                             THEN "Installing Next.js Claude skills globally..."
                             ELSE "Installing Next.js Claude skills to project...">>,
                           <<"Target: ", r.target>>,
                           <<>> >>,
                         !.installed = 0, !.idx = 1, !.pc = "js_loop"])
     /\ UNCHANGED <<fs, env, remote, edits>>

\* lines 44-48: the next skill is copied
\* a changed JsCopy: the copy is started without waiting for it (an
\* asynchronous fs.cp), so the loop goes on before anything is written
JsCopyAsync(p) ==
  LET r == procs[p]
  IN /\ r.pc = "js_loop"
     /\ r.idx <= Len(r.skills)
     /\ Set(p, [r EXCEPT !.pc = "js_log", !.tried = Append(@, r.skills[r.idx])])
     /\ UNCHANGED <<fs, env, remote, edits>>

\* a changed JsCopy: the exception of a failed copy is caught and the loop goes on
JsCopyContinues(p) ==
  LET r == procs[p]
  IN /\ r.pc = "js_loop"
     /\ r.idx <= Len(r.skills)
     /\ \E o \in CpSyncOutcomes(fs, skillsSource \o <<r.skills[r.idx]>>,
                                r.target \o <<r.skills[r.idx]>>) :
          /\ fs' = o.fs
          /\ IF o.ok
             THEN Set(p, [r EXCEPT !.pc = "js_log", !.tried = Append(@, r.skills[r.idx])])
             ELSE Set(p, [r EXCEPT !.err = @ \o <<<<"Error", "cp">>>>, !.pc = "js_log",
                                   !.tried = Append(@, r.skills[r.idx])])
     /\ UNCHANGED <<env, remote, edits>>

JsCopy(p) ==
  LET r == procs[p]
  IN /\ r.pc = "js_loop"
     /\ r.idx <= Len(r.skills)
     /\ \E o \in CpSyncOutcomes(fs, skillsSource \o <<r.skills[r.idx]>>,
                                r.target \o <<r.skills[r.idx]>>) :
          /\ fs' = o.fs
          /\ IF o.ok
             THEN Set(p, [r EXCEPT !.pc = "js_log", !.tried = Append(@, r.skills[r.idx])])
             ELSE Set(p, Exit([r EXCEPT !.err = @ \o <<<<"Error", "cp">>>>,
                                        !.tried = Append(@, r.skills[r.idx])], 1, o.fs))
     /\ UNCHANGED <<env, remote, edits>>

\* lines 49-50
JsProgress(p) ==
  LET r == procs[p]
  IN /\ r.pc = "js_log"
     /\ Set(p, [r EXCEPT !.out = @ \o << <<"  \\u2713 ", r.skills[r.idx]>> >>,
                         !.installed = @ + 1, !.idx = @ + 1, !.pc = "js_loop"])
     /\ UNCHANGED <<fs, env, remote, edits>>

\* lines 53-60, and the process ends with status 0
JsSummary(p) ==
  LET r == procs[p]
  IN /\ r.pc = "js_loop"
     /\ r.idx > Len(r.skills)
     /\ Set(p, Exit([r EXCEPT !.out = @ \o << <<>>,
                           <<"Done! ", r.installed, " skills installed.">>,
                           <<>>,
                           <<"Skills are auto-activated by Claude Code based on your prompts.">>,
                           <<"No additional configuration needed.">>,
                           <<>> >>], 0, fs))
     /\ UNCHANGED <<fs, env, remote, edits>>

JsNext(p) ==
  \/ JsResolve(p) \/ JsExists(p) \/ JsReaddir(p) \/ JsMkdir(p)
  \/ JsBanner(p) \/ JsCopy(p) \/ JsProgress(p) \/ JsSummary(p)

(* ------------------------------ install.sh ---------------------------- *)

\* a changed ShFail: the failing command's status is lost and the script ends
\* with status 0
ShFailExitsZero(r, st, msg) ==
  [r EXCEPT !.pc = "sh_exit", !.rc = 0, !.err = @ \o <<msg>>]

\* a changed ShFail: the failing command writes nothing to standard error
ShFailSilent(r, st, msg) == [r EXCEPT !.pc = "sh_exit", !.rc = st]

\* a changed ShFail: without set -e the script runs on to the summary line
ShFailPrintsDone(r, st, msg) ==
  [r EXCEPT !.pc = "sh_exit", !.rc = st, !.err = @ \o <<msg>>,
            !.out = @ \o << <<"Done! ", r.installed, " skills installed.">> >>]

\* a changed ShFail: the trap does not run when the script ends on a failure
ShFailSkipsTrap(r, st, msg) ==
  [r EXCEPT !.pc = "sh_exit", !.rc = st, !.err = @ \o <<msg>>, !.trap = FALSE]

\* set -e: a failing command ends the script with that command's status; the
\* EXIT trap, when set, runs before the process ends
ShFail(r, st, msg) == [r EXCEPT !.pc = "sh_exit", !.rc = st, !.err = @ \o <<msg>>]

\* lines 5-11: GLOBAL is true when some argument is exactly --global
ShArgs(p) ==
  LET r == procs[p]
  IN /\ r.pc = "sh_args"
     /\ Set(p, [r EXCEPT !.isGlobal = \E i \in 1..Len(r.argv) : r.argv[i] = "--global",
                         !.pc = "sh_target"])
     /\ UNCHANGED <<fs, env, remote, edits>>

\* a changed ShTarget: $HOME is expanded before the mode is looked at
ShTargetExpandsHome(p) ==
  LET r == procs[p]
  IN /\ r.pc = "sh_target"
     /\ IF env.HOME = Unset
        THEN Set(p, ShFail(r, 1, <<"HOME: unbound variable">>))
        ELSE Set(p, [r EXCEPT !.target = (IF r.isGlobal THEN env.HOME ELSE CwdDir)
                                         \o <<".claude", "skills">>,
                              !.pc = "sh_mktemp"])
     /\ UNCHANGED <<fs, env, remote, edits>>

\* lines 13-17: under set -u, expanding an unset HOME ends the script with status 1
ShTarget(p) ==
  LET r == procs[p]
  IN /\ r.pc = "sh_target"
     /\ IF r.isGlobal /\ env.HOME = Unset
        THEN Set(p, ShFail(r, 1, <<"HOME: unbound variable">>))
        ELSE Set(p, [r EXCEPT !.target = (IF r.isGlobal THEN env.HOME ELSE CwdDir)
                                         \o <<".claude", "skills">>,
                              !.pc = "sh_mktemp"])
     /\ UNCHANGED <<fs, env, remote, edits>>

\* a changed FreshTmp: a fixed directory name instead of mktemp -d
FixedTmp(f) == "tmp.A"

\* mktemp -d takes a name that is not in use.  The names are interchangeable
\* (nothing else refers to one), so the model takes the first unused one.
FreshTmp(f) ==
  CHOOSE n \in TmpNames :
    /\ ~Exists(f, TmpRoot \o <<n>>)
    /\ \A m \in TmpNames : ~Exists(f, TmpRoot \o <<m>>) => TmpIndex(n) <= TmpIndex(m)

\* lines 19-20: mktemp -d creates the directory; the trap is set
ShMktemp(p) ==
  LET r == procs[p]
  IN /\ r.pc = "sh_mktemp"
     /\ LET n == FreshTmp(fs)
        IN /\ fs' = fs @@ (TmpRoot \o <<n>> :> DirNode)
           /\ Set(p, [r EXCEPT !.tmpdir = TmpRoot \o <<n>>, !.trap = TRUE,
                               !.pc = "sh_echo"])
     /\ UNCHANGED <<env, remote, edits>>

\* Every echo is a write of its own: r.said counts the lines of the group of
\* echoes the script is in that have been written.  The process record after
\* the next of the lines is written; after the last one the script is at pc.
SayLine(r, lines, pc) ==
  [r EXCEPT !.out = Append(@, lines[r.said + 1]),
            !.said = IF r.said + 1 = Len(lines) THEN 0 ELSE r.said + 1,
            !.pc = IF r.said + 1 = Len(lines) THEN pc ELSE r.pc]

\* the lines of lines 22-23
EchoLines == << <<>>, <<"Cloning Next.js Claude skills...">> >>
\* lines 22-23, one echo
ShEchoLine(p) ==
  LET r == procs[p]
  IN /\ r.pc = "sh_echo"
     /\ Set(p, SayLine(r, EchoLines, "sh_clone"))
     /\ UNCHANGED <<fs, env, remote, edits>>

\* what git keeps of a tree: the files and the directories above them (an
\* empty directory is not stored)
Tracked(t) ==
  [p \in {<<>>} \cup UNION {Prefixes(r) : r \in {q \in DOMAIN t : t[q].type = "file"}}
     |-> t[p]]
\* the repository metadata of a clone, reduced to one entry
GitDir == (<<".git">> :> DirNode) @@ (<<".git", "HEAD">> :> FileNode("ref"))
\* what git clone leaves at its destination: the tracked tree and .git
GitClone(t) == Tracked(t) @@ GitDir

\* line 24, the clone succeeds: the snapshot's tracked tree and .git are at
\* $TMPDIR/repo (the whole command, as it runs when no other process acts
\* meanwhile)
ShCloneOk(p) ==
  LET r == procs[p]
  IN /\ r.pc = "sh_clone"
     /\ fs' = Graft(GitClone(remote), r.tmpdir \o <<"repo">>) @@ fs
     /\ Set(p, [r EXCEPT !.pc = "sh_mkdir", !.fetches = @ + 1])
     /\ UNCHANGED <<env, remote, edits>>

\* a changed ShCloneFail: a failed clone is tried once more
ShCloneFailRetries(p) ==
  LET r == procs[p]
  IN /\ r.pc = "sh_clone"
     /\ IF r.fetches = 0
        THEN Set(p, [r EXCEPT !.fetches = @ + 1])
        ELSE Set(p, ShFail([r EXCEPT !.fetches = @ + 1], 128,
                           <<"fatal: unable to access", "REPO">>))
     /\ UNCHANGED <<fs, env, remote, edits>>

\* line 24, the clone fails (git's status is 128): what git had created at
\* $TMPDIR/repo is removed again (the whole command)
ShCloneFail(p) ==
  LET r == procs[p]
  IN /\ r.pc = "sh_clone"
     /\ Set(p, ShFail([r EXCEPT !.fetches = @ + 1], 128, <<"fatal: unable to access", "REPO">>))
     /\ UNCHANGED <<fs, env, remote, edits>>

\* line 26 (the whole command)
ShMkdir(p) ==
  LET r == procs[p]
      m == MkdirP(fs, r.target)
  IN /\ r.pc = "sh_mkdir"
     /\ fs' = m.fs
     /\ IF m.ok
        THEN Set(p, [r EXCEPT !.pc = "sh_banner"])
        ELSE Set(p, ShFail(r, 1, <<"mkdir: cannot create directory">>))
     /\ UNCHANGED <<env, remote, edits>>

\* a changed BannerLines: the blank line after the banner is not written
BannerLinesNoBlank(r) ==
  << <<IF r.isGlobal THEN "Installing globally to " ELSE "Installing to project at ",
       r.target>> >>
\* the lines of lines 30-35
BannerLines(r) ==
  << <<IF r.isGlobal THEN "Installing globally to " ELSE "Installing to project at ",
       r.target>>,
     <<>> >>
\* lines 28-35: INSTALLED=0 before the first echo, then one echo
ShBannerLine(p) ==
  LET r == procs[p]
  IN /\ r.pc = "sh_banner"
     /\ Set(p, [SayLine(r, BannerLines(r), "sh_glob")
                  EXCEPT !.installed = IF r.said = 0 THEN 0 ELSE @])
     /\ UNCHANGED <<fs, env, remote, edits>>

\* line 37: the word list of the for loop is expanded once
ShGlob(p) ==
  LET r == procs[p]
  IN /\ r.pc = "sh_glob"
     /\ Set(p, [r EXCEPT !.skills = GlobDirs(fs, r.tmpdir \o <<"repo", "skills">>),
                         !.idx = 1, !.pc = "sh_loop"])
     /\ UNCHANGED <<fs, env, remote, edits>>

\* cp has written the messages msgs to standard error
CpSaid(r, msgs) ==
  [r EXCEPT !.err = @ \o [i \in 1..Len(msgs) |-> <<"cp: ", msgs[i]>>]]
Front(s) == SubSeq(s, 1, Len(s) - 1)
Last(s) == s[Len(s)]

\* a changed ShCopy: the skill is moved, its directory is gone from the clone
ShCopyMoves(p) ==
  LET r == procs[p]
      skill_name == r.skills[r.idx]
      src == r.tmpdir \o <<"repo", "skills", skill_name>>
  IN /\ r.pc = "sh_loop"
     /\ r.idx <= Len(r.skills)
     /\ \E ord \in CpVisits(fs, src) :
          LET c == CpR(fs, src, r.target \o <<skill_name>>, ord)
              t == [r EXCEPT !.tried = Append(@, skill_name)]
          IN /\ fs' = Remove(c.fs, src)
             /\ IF c.ok
                THEN Set(p, [t EXCEPT !.pc = "sh_log"])
                ELSE Set(p, ShFail(CpSaid(t, Front(c.msgs)), 1, <<"cp: ", Last(c.msgs)>>))
     /\ UNCHANGED <<env, remote, edits>>

\* lines 38-39: skill_name is the basename of the word, and cp -r copies it
\* (the whole cp, as it runs when no other process writes meanwhile); cp
\* writes one message for every entry it could not copy, and when it has
\* ended with status 1 set -e ends the script
ShCopy(p) ==
  LET r == procs[p]
      skill_name == r.skills[r.idx]
      src == r.tmpdir \o <<"repo", "skills", skill_name>>
  IN /\ r.pc = "sh_loop"
     /\ r.idx <= Len(r.skills)
     /\ \E ord \in CpVisits(fs, src) :
          LET c == CpR(fs, src, r.target \o <<skill_name>>, ord)
              t == [r EXCEPT !.tried = Append(@, skill_name)]
          IN /\ fs' = c.fs
             /\ IF c.ok
                THEN Set(p, [t EXCEPT !.pc = "sh_log"])
                ELSE Set(p, ShFail(CpSaid(t, Front(c.msgs)), 1, <<"cp: ", Last(c.msgs)>>))
     /\ UNCHANGED <<env, remote, edits>>

(* cp -r is not one step: it looks at the destination operand, then visits
   the entries of the source depth first, and for each entry decides whether
   the destination entry is new and then creates or overwrites it.  Another
   process writing to the same destination can act between any two of these.
   When runs do not overlap the steps below end in the result of CpR. *)

\* the process record when its cp has ended
CpReset(r) ==
  [r EXCEPT !.cpdest = Unset, !.cpq = <<>>, !.cpnew = FALSE, !.cpmade = {}, !.cpfail = FALSE]
\* cp goes on to the next entry of queue q, or ends: with status 0 the script
\* goes on to the echo; with status 1, when an entry has failed (its message
\* is written already), set -e ends the script.  An entry below a directory
\* this cp created is taken as new without looking.
CpAdvance(r, q, made, failed) ==
  IF q = <<>>
  THEN IF ~failed THEN [CpReset(r) EXCEPT !.pc = "sh_log"]
       ELSE [CpReset(r) EXCEPT !.pc = "sh_exit", !.rc = 1]
  ELSE IF Head(q) # <<>> /\ Parent(Head(q)) \in made
  THEN [r EXCEPT !.cpq = q, !.cpmade = made, !.cpfail = failed, !.cpnew = TRUE,
                 !.pc = "sh_cp_put"]
  ELSE [r EXCEPT !.cpq = q, !.cpmade = made, !.cpfail = failed, !.cpnew = FALSE,
                 !.pc = "sh_cp_stat"]

\* lines 38-39, cp starts: a missing source is an error; a destination operand
\* that is a directory receives the copy as <operand>/<basename of source>
ShCpBegin(p) ==
  LET r == procs[p]
      skill_name == r.skills[r.idx]
      src == r.tmpdir \o <<"repo", "skills", skill_name>>
      dest == r.target \o <<skill_name>>
      t == [r EXCEPT !.tried = Append(@, skill_name)]
  IN /\ r.pc = "sh_loop"
     /\ r.idx <= Len(r.skills)
     /\ IF ~Exists(fs, src)
        THEN Set(p, ShFail(t, 1, <<"cp: ", "cannot stat">>))
        ELSE \E ord \in CpVisits(fs, src) :
               Set(p, [t EXCEPT !.cpdest = IF IsDir(fs, dest) THEN dest \o <<skill_name>>
                                           ELSE dest,
                                !.cpq = ord, !.pc = "sh_cp_stat"])
     /\ UNCHANGED <<fs, env, remote, edits>>

\* cp looks whether the destination of the next entry exists
ShCpStat(p) ==
  LET r == procs[p]
  IN /\ r.pc = "sh_cp_stat"
     /\ Set(p, [r EXCEPT !.cpnew = ~Exists(fs, r.cpdest \o Head(r.cpq)),
                         !.pc = "sh_cp_put"])
     /\ UNCHANGED <<fs, env, remote, edits>>

\* cp creates or opens the destination of the next entry: a new entry is
\* created exclusively (mkdir, open with O_EXCL) and fails with "File exists"
\* when something is there by now; a directory where a file is copied is an
\* error ("cannot overwrite", for cannot overwrite directory), and so is a
\* file where a directory is copied ("cannot overwrite non-directory").  cp
\* writes the message of an entry that fails at once, skips the entry with
\* everything below it and goes on.  A file is empty when it has been created
\* or opened (O_TRUNC); its data are written by the next step.
ShCpPut(p) ==
  LET r == procs[p]
      rel == Head(r.cpq)
      path == r.cpdest \o rel
      node == fs[r.tmpdir \o <<"repo", "skills", r.skills[r.idx]>> \o rel]
      error == IF r.cpnew
               THEN IF Exists(fs, path) THEN "File exists" ELSE ""
               ELSE IF ~Exists(fs, path) \/ fs[path].type = node.type THEN ""
               ELSE IF node.type = "dir" THEN "cannot overwrite non-directory"
               ELSE "cannot overwrite"
      rest == IF error = "" THEN Tail(r.cpq)
              ELSE SelectSeq(Tail(r.cpq), LAMBDA q : ~IsPrefix(rel, q))
      made == IF error = "" /\ node.type = "dir" /\ ~Exists(fs, path)
              THEN r.cpmade \cup {rel} ELSE r.cpmade
  IN /\ r.pc = "sh_cp_put"
     /\ IF error = "" /\ node.type = "file"
        THEN /\ fs' = (path :> FileNode("")) @@ fs
             /\ Set(p, [r EXCEPT !.pc = "sh_cp_write"])
        ELSE /\ fs' = IF error # "" \/ Exists(fs, path) THEN fs
                      ELSE (path :> DirNode) @@ fs
             /\ Set(p, CpAdvance(IF error = "" THEN r ELSE CpSaid(r, <<error>>),
                                  rest, made, r.cpfail \/ error # ""))
     /\ UNCHANGED <<env, remote, edits>>

\* cp writes the data of the file it has opened
ShCpWrite(p) ==
  LET r == procs[p]
      rel == Head(r.cpq)
  IN /\ r.pc = "sh_cp_write"
     /\ fs' = (r.cpdest \o rel :> fs[r.tmpdir \o <<"repo", "skills", r.skills[r.idx]>> \o rel])
              @@ fs
     /\ Set(p, CpAdvance(r, Tail(r.cpq), r.cpmade, r.cpfail))
     /\ UNCHANGED <<env, remote, edits>>

\* lines 40-41
ShProgress(p) ==
  LET r == procs[p]
  IN /\ r.pc = "sh_log"
     /\ Set(p, [r EXCEPT !.out = @ \o << <<"  + ", r.skills[r.idx]>> >>,
                         !.installed = @ + 1, !.idx = @ + 1, !.pc = "sh_loop"])
     /\ UNCHANGED <<fs, env, remote, edits>>

\* the lines of lines 44-49
SummaryLines(r) ==
  << <<>>,
     <<"Done! ", r.installed, " skills installed.">>,
     <<>>,
     <<"Skills are auto-activated by Claude Code based on your prompts.">>,
     <<"No additional configuration needed.">>,
     <<>> >>
\* lines 44-49, one echo; after the last one the script ends with status 0
ShSummaryLine(p) ==
  LET r == procs[p]
      last == r.said + 1 = Len(SummaryLines(r))
  IN /\ r.pc = "sh_loop"
     /\ r.idx > Len(r.skills)
     /\ Set(p, [SayLine(r, SummaryLines(r), "sh_exit")
                  EXCEPT !.rc = IF last THEN 0 ELSE @])
     /\ UNCHANGED <<fs, env, remote, edits>>

\* a changed ShTrap: the script ends without removing anything
ShTrapKeeps(p) ==
  /\ procs[p].pc = "sh_exit"
  /\ Set(p, Exit(procs[p], procs[p].rc, fs))
  /\ UNCHANGED <<fs, env, remote, edits>>

\* a changed ShTrap: the trap removes the directory that holds $TMPDIR
ShTrapRemovesParent(p) ==
  LET r == procs[p]
  IN /\ r.pc = "sh_exit"
     /\ fs' = IF r.trap THEN Remove(fs, Parent(r.tmpdir)) ELSE fs
     /\ Set(p, Exit(r, r.rc, fs'))
     /\ UNCHANGED <<env, remote, edits>>

\* line 20: on exit the trap, when set, runs rm -rf "$TMPDIR"; the exit status is
\* the one the script ended with (the whole command)
ShTrap(p) ==
  LET r == procs[p]
  IN /\ r.pc = "sh_exit"
     /\ fs' = IF r.trap THEN Remove(fs, r.tmpdir) ELSE fs
     /\ Set(p, Exit(r, r.rc, fs'))
     /\ UNCHANGED <<env, remote, edits>>

ShNext(p) ==
  \/ ShArgs(p) \/ ShTarget(p) \/ ShMktemp(p) \/ ShEchoLine(p) \/ ShCloneOk(p)
  \/ ShCloneFail(p) \/ ShMkdir(p) \/ ShBannerLine(p) \/ ShGlob(p) \/ ShCopy(p)
  \/ ShProgress(p) \/ ShSummaryLine(p) \/ ShTrap(p)

(* ------------------- install.sh started twice at once ------------------ *)

(* git clone, mkdir -p and rm -rf are not one step either: each makes one
   file-system call per entry, and another process can act, start or end
   between two of them, and between the end of rm and the end of the shell.
   Without such a process the steps below end in the results of ShCloneOk,
   ShCloneFail, ShMkdir and ShTrap. *)

\* the names of the payloads in byte order, the order of the paths in git's index
ByteOrder ==
  <<".hid", "README.md", "SKILL.md", "alpha", "beta", "bin", "install.js",
    "install.sh", "ref", "skills", "x.md">>
\* the order in which the checkout creates the entries of tree t from rel down:
\* the files in index order, a directory when its first file is due
RECURSIVE CheckoutOrder(_, _), CheckoutKids(_, _, _)
CheckoutOrder(t, rel) ==
  IF t[rel].type = "file" THEN <<rel>>
  ELSE <<rel>> \o CheckoutKids(t, SelectSeq([i \in 1..Len(ByteOrder) |-> rel \o <<ByteOrder[i]>>],
                                            LAMBDA q : q \in DOMAIN t), 1)
CheckoutKids(t, kids, i) ==
  IF i > Len(kids) THEN <<>>
  ELSE CheckoutOrder(t, kids[i]) \o CheckoutKids(t, kids, i + 1)

\* line 24, git clone starts: it creates the directory it clones into
ShGitMkdir(p) ==
  LET r == procs[p]
  IN /\ r.pc = "sh_clone"
     /\ fs' = (r.tmpdir \o <<"repo">> :> DirNode) @@ fs
     /\ Set(p, [r EXCEPT !.gitq = <<<<".git">>, <<".git", "HEAD">>>>, !.pc = "sh_git_init"])
     /\ UNCHANGED <<env, remote, edits>>

\* git clone sets up .git, before it contacts the remote
ShGitInit(p) ==
  LET r == procs[p]
      rel == Head(r.gitq)
  IN /\ r.pc = "sh_git_init"
     /\ fs' = (r.tmpdir \o <<"repo">> \o rel :> GitDir[rel]) @@ fs
     /\ Set(p, [r EXCEPT !.gitq = Tail(@),
                         !.pc = IF Tail(r.gitq) = <<>> THEN "sh_git_fetch" ELSE "sh_git_init"])
     /\ UNCHANGED <<env, remote, edits>>

\* the fetch succeeds: the tracked tree is to be checked out
ShGitFetchOk(p) ==
  LET r == procs[p]
      todo == Tail(CheckoutOrder(Tracked(remote), <<>>))
  IN /\ r.pc = "sh_git_fetch"
     /\ Set(p, [r EXCEPT !.fetches = @ + 1, !.gitq = todo,
                         !.pc = IF todo = <<>> THEN "sh_mkdir" ELSE "sh_git_checkout"])
     /\ UNCHANGED <<fs, env, remote, edits>>

\* the fetch fails: git reports it and goes on to remove what it has made
ShGitFetchFail(p) ==
  LET r == procs[p]
  IN /\ r.pc = "sh_git_fetch"
     /\ Set(p, [ShFail([r EXCEPT !.fetches = @ + 1], 128, <<"fatal: unable to access", "REPO">>)
                  EXCEPT !.pc = "sh_git_junk"])
     /\ UNCHANGED <<fs, env, remote, edits>>

\* the failed clone removes .git and then the directory it cloned into, and
\* git ends with status 128
ShGitJunk(p) ==
  LET r == procs[p]
      repo == r.tmpdir \o <<"repo">>
      victim == IF Exists(fs, repo \o <<".git", "HEAD">>) THEN repo \o <<".git", "HEAD">>
                ELSE IF Exists(fs, repo \o <<".git">>) THEN repo \o <<".git">>
                ELSE repo
  IN /\ r.pc = "sh_git_junk"
     /\ fs' = Remove(fs, victim)
     /\ Set(p, [r EXCEPT !.pc = IF victim = repo THEN "sh_exit" ELSE "sh_git_junk"])
     /\ UNCHANGED <<env, remote, edits>>

\* the checkout creates the next entry of the work tree: a directory, or a
\* file that is created empty and written by the next step
ShGitCheckout(p) ==
  LET r == procs[p]
      rel == Head(r.gitq)
      path == r.tmpdir \o <<"repo">> \o rel
      node == Tracked(remote)[rel]
      created == node.type = "file" /\ ~Exists(fs, path)
  IN /\ r.pc = "sh_git_checkout"
     /\ fs' = (path :> IF created THEN FileNode("") ELSE node) @@ fs
     /\ Set(p, IF created THEN r
               ELSE [r EXCEPT !.gitq = Tail(@),
                              !.pc = IF Tail(r.gitq) = <<>> THEN "sh_mkdir"
                                     ELSE "sh_git_checkout"])
     /\ UNCHANGED <<env, remote, edits>>

\* line 26, one call of mkdir -p: the first missing directory of the path is
\* created (a call for a directory that exists changes nothing); a component
\* that exists and is not a directory is the error of ShMkdir
ShMkdirStep(p) ==
  LET r == procs[p]
      missing == {q \in Prefixes(r.target) : ~Exists(fs, q)}
      first == CHOOSE q \in missing : \A m \in missing : Len(q) <= Len(m)
  IN /\ r.pc = "sh_mkdir"
     /\ IF \E q \in Prefixes(r.target) : IsFile(fs, q)
        THEN /\ fs' = fs
             /\ Set(p, ShFail(r, 1, <<"mkdir: cannot create directory">>))
        ELSE IF missing = {}
        THEN /\ fs' = fs
             /\ Set(p, [r EXCEPT !.pc = "sh_banner"])
        ELSE /\ fs' = (first :> DirNode) @@ fs
             /\ Set(p, [r EXCEPT !.pc = IF missing = {first} THEN "sh_banner"
                                        ELSE "sh_mkdir"])
     /\ UNCHANGED <<env, remote, edits>>

\* what rm can remove next below d: the files and the empty directories
RmLeaves(f, d) ==
  {q \in Under(f, d) : ~\E c \in DOMAIN f : Len(c) = Len(q) + 1 /\ IsPrefix(q, c)}

\* line 20, one removal of the rm -rf "$TMPDIR" the EXIT trap runs: rm goes
\* down into a directory in the order the filesystem lists it, empties it and
\* removes it before it goes on beside it.  When $TMPDIR itself is removed rm
\* has ended; the shell has not.
ShTrapStep(p) ==
  LET r == procs[p]
      cur == IF r.pc = "sh_exit" THEN r.tmpdir ELSE r.rmcur
  IN /\ \/ r.pc = "sh_exit" /\ r.trap
        \/ r.pc = "sh_rm"
     /\ \E v \in RmLeaves(fs, cur) :
          /\ fs' = Remove(fs, v)
          /\ IF v = r.tmpdir
             THEN Set(p, [r EXCEPT !.rmcur = Unset, !.pc = "sh_end"])
             ELSE Set(p, [r EXCEPT !.rmcur = Parent(v), !.pc = "sh_rm"])
     /\ UNCHANGED <<env, remote, edits>>

\* the shell ends, after the trap or without one, with the status the script
\* ended with
ShEnd(p) ==
  LET r == procs[p]
  IN /\ \/ r.pc = "sh_end"
        \/ r.pc = "sh_exit" /\ ~r.trap
     /\ Set(p, Exit(r, r.rc, fs))
     /\ UNCHANGED <<fs, env, remote, edits>>

\* the steps of install.sh with every command taken one file-system call at
\* a time
ShNextOverlap(p) ==
  \/ ShArgs(p) \/ ShTarget(p) \/ ShMktemp(p) \/ ShEchoLine(p)
  \/ ShGitMkdir(p) \/ ShGitInit(p) \/ ShGitFetchOk(p) \/ ShGitFetchFail(p)
  \/ ShGitJunk(p) \/ ShGitCheckout(p)
  \/ ShMkdirStep(p) \/ ShBannerLine(p) \/ ShGlob(p)
  \/ ShCpBegin(p) \/ ShCpStat(p) \/ ShCpPut(p) \/ ShCpWrite(p)
  \/ ShProgress(p) \/ ShSummaryLine(p) \/ ShTrapStep(p) \/ ShEnd(p)

\* a second shell starts install.sh, with the same arguments, while the
\* first run may still be going on
StartOverlapping(p, a) ==
  /\ procs[p].pc = "idle"
  /\ \A q \in Procs : q < p => procs[q].pc # "idle"
  /\ p > 1 => a = procs[1].argv
  /\ Set(p, [procs[p] EXCEPT !.kind = "sh", !.argv = a, !.fs0 = fs, !.pc = "sh_args"])
  /\ UNCHANGED <<fs, env, remote, edits>>

(* ------------------------------ the user ------------------------------ *)

SkillRoots == {CwdDir \o <<".claude", "skills">>, HomeDir \o <<".claude", "skills">>}

\* between two runs the user edits a file below a destination root
EditFile(path) ==
  /\ edits < MaxEdits
  /\ \A q \in Procs : ~Running(q)
  /\ \E q \in Procs : Done(q)
  /\ IsFile(fs, path)
  /\ \E d \in SkillRoots : IsPrefix(d, path)
  /\ fs[path].data # "edited"
  /\ fs' = [fs EXCEPT ![path] = FileNode("edited")]
  /\ edits' = edits + 1
  /\ UNCHANGED <<env, remote, procs>>

\* one run of either installer
Next ==
  \/ \E k \in {"js", "sh"}, a \in ArgLists : Start(1, k, a)
  \/ JsNext(1)
  \/ ShNext(1)

Spec == Init /\ [][Next]_vars

\* two runs of install.sh whose file-system calls interleave, both in project
\* mode (with HOME set, global mode is the same run at another base directory)
Overlapping == {1, 2}
OverlapArgs == {<<>>}
NextOverlap ==
  \E p \in Overlapping :
    \/ \E a \in OverlapArgs : StartOverlapping(p, a)
    \/ ShNextOverlap(p)

\* the overlapping runs start from a snapshot reduced to two skills of one
\* file each and from an empty working and home directory, with HOME set
OverlapRepo ==
  (<<>> :> DirNode) @@ (<<"skills">> :> DirNode)
  @@ (<<"skills", "alpha">> :> DirNode)
  @@ (<<"skills", "alpha", "SKILL.md">> :> FileNode("alpha-v2"))
  @@ Graft(BetaTree, <<"skills", "beta">>)
OverlapEnvs == {e \in Envs : e.HOME # Unset}
InitOverlap == InitFrom(OverlapEnvs, {OverlapRepo}, {NoTree})

SpecOverlap == InitOverlap /\ [][NextOverlap]_vars

\* runs of the installers one after the other, the user editing in between
NextRerun ==
  \/ \E p \in Procs :
       \/ \E k \in {"js", "sh"}, a \in ArgLists : Start(p, k, a)
       \/ JsNext(p)
       \/ ShNext(p)
  \/ \E path \in DOMAIN fs : EditFile(path)

SpecRerun == Init /\ [][NextRerun]_vars

(* ------------------------------- claims ------------------------------- *)

\* the filesystem when run p started, and when it had ended
AtStart(p) == procs[p].fs0
AtExit(p) == procs[p].fsEnd

\* the repository tree a run takes its payload from: the package on disk for
\* install.js, the snapshot the clone delivers for install.sh
PayloadRepo(p) ==
  IF procs[p].kind = "js" THEN TreeAt(AtStart(p), PkgDir) ELSE Tracked(remote)
PayloadExists(p) == Exists(PayloadRepo(p), <<"skills">>)
\* the names of the directories directly under the payload source
PayloadDirs(p) == ChildDirs(PayloadRepo(p), <<"skills">>)
\* the tree of payload skill S
PayloadSkill(p, S) == TreeAt(PayloadRepo(p), <<"skills", S>>)

Succeeded(p) == Done(p) /\ procs[p].status = 0
Range(a) == {a[i] : i \in 1..Len(a)}
\* the home directory as the installer of kind k finds it
HomeFor(k) ==
  IF env.HOME # Unset THEN env.HOME
  ELSE IF k = "js" THEN env.USERPROFILE ELSE Unset
\* the positions before the destination root is resolved
PreResolve == {"idle", "js_resolve", "sh_args", "sh_target"}
CloneFailed(p) ==
  \E i \in 1..Len(procs[p].err) : procs[p].err[i] = <<"fatal: unable to access", "REPO">>

\* C1: once a run has resolved its destination, the destination root is
\* <home>/.claude/skills when --global is among the arguments and
\* <cwd>/.claude/skills when it is not, whatever the other arguments, their
\* order and their repetition; only a --global run without a home directory
\* resolves nothing (and does not succeed).
C1_DestinationSelection ==
  \A p \in Procs :
    procs[p].pc \notin PreResolve =>
      IF "--global" \in Range(procs[p].argv)
      THEN IF HomeFor(procs[p].kind) = Unset
           THEN procs[p].target = Unset /\ ~Succeeded(p)
           ELSE procs[p].target = HomeFor(procs[p].kind) \o <<".claude", "skills">>
      ELSE procs[p].target = CwdDir \o <<".claude", "skills">>

\* a successful run whose --global comes second, after another argument
C1_Witness ==
  \E p \in Procs :
    /\ Succeeded(p)
    /\ procs[p].argv = <<"-g", "--global">>
    /\ procs[p].target = HomeDir \o <<".claude", "skills">>
    /\ IsDir(AtExit(p), procs[p].target \o <<"alpha">>)

\* C2 as claimed: after a run that exits with status 0 the directory names
\* directly under the destination root are exactly those directly under the
\* payload source.
C2_Original ==
  \A p \in Procs :
    Succeeded(p) => ChildDirs(AtExit(p), procs[p].target) = PayloadDirs(p)

\* C2, allowing for what was there before: after a run that exits with status
\* 0, every directory directly under the payload source is a directory
\* directly under the destination root (no skill omitted), and every directory
\* directly under the destination root is one of the payload or was there
\* before the run.
C2_NoSkillOmitted ==
  \A p \in Procs :
    Succeeded(p) =>
      /\ \A n \in PayloadDirs(p) : IsDir(AtExit(p), procs[p].target \o <<n>>)
      /\ ChildDirs(AtExit(p), procs[p].target)
           \subseteq ChildDirs(AtStart(p), procs[p].target) \cup PayloadDirs(p)

\* C3: after a run that exits with status 0, the tree at <destination root>/S
\* has exactly the relative paths and the file contents of the payload skill S,
\* for every skill directory S of the payload source.
C3_ContentFidelity ==
  \A p \in Procs :
    Succeeded(p) =>
      \A S \in PayloadDirs(p) : TreeAt(AtExit(p), procs[p].target \o <<S>>) = PayloadSkill(p, S)

\* C4: a second successful run of the same installer, started from what the
\* first successful run left (nothing edited in between), changes nothing.
C4_Idempotent ==
  \A p \in Procs \ {1} :
    ( /\ Succeeded(p - 1) /\ Succeeded(p)
      /\ procs[p].kind = procs[p - 1].kind
      /\ AtStart(p) = AtExit(p - 1) )
    => AtExit(p) = AtExit(p - 1)

\* C5: when the destination root already held a directory named like a payload
\* skill, after a successful run that directory holds nothing the payload skill
\* lacks.
C5_ReplaceSemantics ==
  \A p \in Procs :
    Succeeded(p) =>
      \A S \in PayloadDirs(p) :
        IsDir(AtStart(p), procs[p].target \o <<S>>) =>
          Rel(AtExit(p), procs[p].target \o <<S>>) \subseteq DOMAIN PayloadSkill(p, S)

\* C6: a file of an installed skill that was edited after a first successful
\* install has the payload's content again after a successful re-run of the
\* same installer.
C6_OverwriteModified ==
  \A p \in Procs \ {1} :
    ( /\ Succeeded(p - 1) /\ Succeeded(p)
      /\ procs[p].kind = procs[p - 1].kind )
    => \A S \in PayloadDirs(p) : \A r \in DOMAIN PayloadSkill(p, S) :
         LET path == procs[p].target \o <<S>> \o r
         IN ( /\ IsFile(AtStart(p), path)
              /\ AtStart(p)[path].data = "edited"
              /\ PayloadSkill(p, S)[r].type = "file" )
            => AtExit(p)[path] = PayloadSkill(p, S)[r]

\* C7: when the payload source directory does not exist, the run ends with a
\* non-zero status and an error message, and the filesystem is as it was when
\* the run started.
C7_MissingPayload ==
  \A p \in Procs :
    (Done(p) /\ ~PayloadExists(p)) =>
      /\ procs[p].status # 0
      /\ procs[p].err # <<>>
      /\ AtExit(p) = AtStart(p)

\* C8: when the payload source exists but holds no directory, the run ends with
\* a non-zero status and nothing has been created directly under the
\* destination root.
C8_EmptyPayload ==
  \A p \in Procs :
    (Done(p) /\ PayloadExists(p) /\ PayloadDirs(p) = {}) =>
      /\ procs[p].status # 0
      /\ Children(AtExit(p), procs[p].target) = Children(AtStart(p), procs[p].target)

\* install.sh has cloned a snapshot whose skills/ holds no directory, the
\* pattern stayed unexpanded, cp failed and the script ended with status 1
C8_Witness ==
  \E p \in Procs :
    /\ Done(p) /\ procs[p].kind = "sh"
    /\ PayloadExists(p) /\ PayloadDirs(p) = {}
    /\ procs[p].skills = <<"*">>
    /\ procs[p].status = 1
    /\ IsDir(AtExit(p), procs[p].target)

\* C9: when the payload source holds no directory, the filesystem at exit is
\* the filesystem at start (the destination root is not even created).
C9_EmptyNoMutation ==
  \A p \in Procs :
    (Done(p) /\ PayloadExists(p) /\ PayloadDirs(p) = {}) => AtExit(p) = AtStart(p)

\* C10: when the clone of install.sh fails, then once the process has ended the
\* temporary directory of the run is gone, the run has a non-zero status, has
\* copied nothing, and the filesystem is as it was when the run started.
C10_CleanupOnFetchFailure ==
  \A p \in Procs :
    (Done(p) /\ CloneFailed(p)) =>
      /\ procs[p].tmpdir # Unset
      /\ ~Exists(AtExit(p), procs[p].tmpdir)
      /\ procs[p].status # 0
      /\ procs[p].installed = 0
      /\ AtExit(p) = AtStart(p)

\* a run of install.sh whose clone failed has ended, its temporary directory removed
C10_Witness ==
  \E p \in Procs :
    /\ Done(p) /\ CloneFailed(p)
    /\ procs[p].trap
    /\ ~Exists(AtExit(p), procs[p].tmpdir)
    /\ procs[p].status = 128

\* the run ended because a skill copy failed
CopyFailed(p) ==
  \E i \in 1..Len(procs[p].err) :
    Len(procs[p].err[i]) = 2 /\ procs[p].err[i][1] \in {"Error", "cp: "}
    /\ (procs[p].err[i][1] = "Error" => procs[p].err[i][2] = "cp")
\* the run ended because the destination root could not be created
MkdirFailed(p) ==
  \E i \in 1..Len(procs[p].err) :
    procs[p].err[i] \in {<<"Error", "mkdir">>, <<"mkdir: cannot create directory">>}

\* C11: whatever way a run of install.sh ends (success, clone failure, failure
\* to create the destination root, failure of a copy), the temporary directory
\* the run created does not exist once the process has exited.
C11_TempDirReleased ==
  \A p \in Procs :
    (Done(p) /\ procs[p].kind = "sh" /\ procs[p].tmpdir # Unset) =>
      /\ Under(AtExit(p), procs[p].tmpdir) = {}
      /\ \A n \in TmpNames : ~Exists(AtStart(p), TmpRoot \o <<n>>) =>
                             ~Exists(AtExit(p), TmpRoot \o <<n>>)

\* a run of install.sh that copied one skill and failed on the second has
\* ended, its temporary directory removed
C11_Witness ==
  \E p \in Procs :
    /\ Done(p) /\ procs[p].kind = "sh" /\ CopyFailed(p)
    /\ procs[p].installed = 1
    /\ procs[p].status = 1
    /\ ~Exists(AtExit(p), procs[p].tmpdir)

\* the progress lines a run has written so far, in order
IsProgress(l) == Len(l) = 2 /\ l[1] \in {"  \\u2713 ", "  + "}
ProgressLines(p) == SelectSeq(procs[p].out, IsProgress)
\* the directory a run installs skill number j at
SkillDest(p, j) == procs[p].target \o <<procs[p].skills[j]>>

\* C12 (at the end of the run): when the copy of skill number k fails, the run
\* has a non-zero status, exactly the k-1 skills before it were counted and
\* reported, and the destination of every skill after the k-th is as it was
\* before the run.
C12_EndState ==
  \A p \in Procs :
    (Done(p) /\ CopyFailed(p)) =>
      /\ procs[p].status # 0
      /\ procs[p].idx \in 1..Len(procs[p].skills)
      /\ procs[p].installed = procs[p].idx - 1
      /\ Len(ProgressLines(p)) = procs[p].idx - 1
      /\ \A j \in (procs[p].idx + 1)..Len(procs[p].skills) :
           TreeAt(AtExit(p), SkillDest(p, j)) = TreeAt(AtStart(p), SkillDest(p, j))
      /\ \A j \in 1..(procs[p].idx - 1) : Exists(AtExit(p), SkillDest(p, j))
\* C12 (during the run): no step of a run, the failing copy and the cleanup
\* included, changes the destination of a skill copied earlier in that run.
C12_KeepCopied ==
  \A p \in Procs :
    \A j \in 1..Len(procs[p].skills) :
      (Running(p) /\ j < procs[p].idx) =>
        TreeAt(fs', SkillDest(p, j)) = TreeAt(fs, SkillDest(p, j))
\* C12: fail-fast without rollback. A failed copy of the k-th skill ends the
\* run with a non-zero status, no later skill is copied, and the skills copied
\* before it stay at the destination exactly as copied.
C12_FailFast == []C12_EndState /\ [][C12_KeepCopied]_vars

\* a run whose second copy failed has ended; the first skill is installed
C12_Witness ==
  \E p \in Procs :
    /\ Done(p) /\ CopyFailed(p)
    /\ procs[p].idx = 2 /\ Len(procs[p].skills) = 2
    /\ ~Exists(AtStart(p), SkillDest(p, 1))
    /\ IsDir(AtExit(p), SkillDest(p, 1))

\* the summary lines "Done! N skills installed." a run has written
IsDoneLine(l) == Len(l) = 3 /\ l[1] = "Done! " /\ l[3] = " skills installed."
DoneLines(p) == SelectSeq(procs[p].out, IsDoneLine)
\* the skill names of the progress lines, in the order written
ReportedNames(p) == [i \in 1..Len(ProgressLines(p)) |-> ProgressLines(p)[i][2]]
\* the payload directories the installer of run p enumerates: all of them for
\* install.js (readdir), those not starting with a dot for install.sh (glob)
EnumeratedDirs(p) ==
  IF procs[p].kind = "js" THEN PayloadDirs(p) ELSE PayloadDirs(p) \ DotNames

\* C13 as stated: in a run that exits with status 0 the progress lines name the
\* directories of the payload source, one line each, and the N of the Done line
\* is the number of progress lines and the number of payload directories.
C13_Original ==
  \A p \in Procs :
    Succeeded(p) =>
      /\ Range(ReportedNames(p)) = PayloadDirs(p)
      /\ Len(ProgressLines(p)) = Cardinality(PayloadDirs(p))
      /\ Len(DoneLines(p)) = 1
      /\ DoneLines(p)[1][2] = Cardinality(PayloadDirs(p))

\* the payload of run p was located (install.js: skills/ exists beside the
\* package's bin/) or fetched (install.sh: the clone succeeded)
Located(p) ==
  IF procs[p].kind = "js" THEN Exists(AtStart(p), PkgDir \o <<"skills">>)
  ELSE procs[p].tmpdir # Unset /\ ~CloneFailed(p)
\* the destination root of run p was created or already existed
RootPresent(p) == procs[p].target # Unset /\ IsDir(AtExit(p), procs[p].target)

\* C14: an ended run has status 0 if and only if its payload was located or
\* fetched, the payload source held at least one directory, the destination
\* root exists as a directory, and no skill copy failed; any other run has a
\* non-zero status.
C14_ExitStatus ==
  \A p \in Procs :
    Done(p) =>
      /\ procs[p].status = 0 <=>
           (Located(p) /\ PayloadDirs(p) # {} /\ RootPresent(p) /\ ~CopyFailed(p))
      /\ procs[p].status = 0 => Range(ReportedNames(p)) = EnumeratedDirs(p)

\* a run that located a payload with skills could not create the destination
\* root and ended with a non-zero status
C14_Witness ==
  \E p \in Procs :
    /\ Done(p) /\ Located(p) /\ PayloadDirs(p) = {"alpha", "beta"}
    /\ MkdirFailed(p) /\ ~RootPresent(p)
    /\ procs[p].status # 0

\* kinds of standard-output lines
IsModeLine(l) ==
  Len(l) >= 1 /\ l[1] \in {"Installing Next.js Claude skills globally...",
                           "Installing Next.js Claude skills to project...",
                           "Installing globally to ", "Installing to project at "}
IsCloneLine(l) == Len(l) = 1 /\ l[1] = "Cloning Next.js Claude skills..."
IsPathLine(l) ==
  Len(l) = 2 /\ l[1] \in {"Target: ", "Installing globally to ", "Installing to project at "}
IndexesOf(p, Is(_)) == {i \in 1..Len(procs[p].out) : Is(procs[p].out[i])}
\* the lines both installers end a successful run with
TailLines(n) ==
  << <<>>, <<"Done! ", n, " skills installed.">>, <<>>,
     <<"Skills are auto-activated by Claude Code based on your prompts.">>,
     <<"No additional configuration needed.">>, <<>> >>
\* the lines before the progress lines
HeadLines(p) ==
  IF procs[p].kind = "js"
  THEN << <<>>,
          <<IF procs[p].isGlobal THEN "Installing Next.js Claude skills globally..."
            ELSE "Installing Next.js Claude skills to project...">>,
          <<"Target: ", procs[p].target>>, <<>> >>
  ELSE << <<>>, <<"Cloning Next.js Claude skills...">>,
          <<IF procs[p].isGlobal THEN "Installing globally to "
            ELSE "Installing to project at ", procs[p].target>>, <<>> >>

\* C15 as stated, read as an order on the lines that allows other lines in
\* between: in a successful run a line naming the mode comes first, for
\* install.sh the cloning line comes after it, the line with the destination
\* path comes after both, and every progress line comes after the path line
\* and before the Done line.
C15_Original ==
  \A p \in Procs :
    Succeeded(p) =>
      \E m \in IndexesOf(p, IsModeLine), t \in IndexesOf(p, IsPathLine) :
        /\ m <= t
        /\ procs[p].kind = "sh" => \E c \in IndexesOf(p, IsCloneLine) : m < c /\ c < t
        /\ \A i \in IndexesOf(p, IsProgress), d \in IndexesOf(p, IsDoneLine) : t < i /\ i < d

\* C15 as amended: the standard output of a successful run is exactly, for
\* install.js: a blank line, the banner naming the mode, the line with the
\* destination path, a blank line; for install.sh: a blank line, the cloning
\* line, one line naming the mode and the destination path, a blank line; then
\* for both one line per installed skill in enumeration order, a blank line,
\* the Done line, a blank line, the two informational lines, a blank line.
C15_OutputOrder ==
  \A p \in Procs :
    Succeeded(p) =>
      /\ procs[p].out = HeadLines(p) \o ProgressLines(p) \o TailLines(Len(ProgressLines(p)))
      /\ ReportedNames(p) = procs[p].skills

\* install.sh succeeded with two skills: twelve lines, the cloning line second,
\* the line with mode and path third
C15_Witness ==
  \E p \in Procs :
    /\ Succeeded(p) /\ procs[p].kind = "sh" /\ procs[p].isGlobal
    /\ Len(procs[p].out) = 12
    /\ IsCloneLine(procs[p].out[2])
    /\ procs[p].out[3] = <<"Installing globally to ", procs[p].target>>
    /\ procs[p].out[5] = <<"  + ", "alpha">>
    /\ procs[p].out[6] = <<"  + ", "beta">>

\* what a run reports and leaves at its destination root
DestTree(p) == TreeAt(AtExit(p), procs[p].target)
\* two ended runs, one of each installer, that were given the same payload
\* tree (the clone delivered it), the same arguments and the same filesystem
SameInputs(p, q) ==
  /\ Done(p) /\ procs[p].kind = "js"
  /\ Done(q) /\ procs[q].kind = "sh" /\ Located(q)
  /\ procs[p].argv = procs[q].argv
  /\ AtStart(p) = AtStart(q)
  /\ PayloadRepo(p) = PayloadRepo(q)

\* C16: a run of install.js and a run of install.sh that start from the same
\* filesystem with the same payload and the same flag end with the same exit
\* outcome (zero or not), the same tree at the destination root, the same set
\* of reported skill names and the same count.
C16_Equivalence ==
  \A p, q \in Procs :
    SameInputs(p, q) =>
      /\ (procs[p].status = 0) <=> (procs[q].status = 0)
      /\ DestTree(p) = DestTree(q)
      /\ Range(ReportedNames(p)) = Range(ReportedNames(q))
      /\ procs[p].installed = procs[q].installed

\* the positions of install.sh at which the clone is on disk: after a
\* successful git clone and before the EXIT trap
ShHasClone(p) ==
  \/ procs[p].pc \in {"sh_mkdir", "sh_banner", "sh_glob", "sh_loop", "sh_cp_stat",
                     "sh_cp_put", "sh_cp_write", "sh_log"}
  \/ procs[p].pc = "sh_exit" /\ Located(p)

\* C17: the payload source is never altered. At every point of a run of
\* install.js, and at its exit, the package tree is the one the run started
\* with; at every point of a run of install.sh from the clone to the cleanup,
\* the cloned tree is what git clone made of the delivered snapshot.
C17_PayloadReadOnly ==
  \A p \in Procs :
    /\ (procs[p].kind = "js" /\ Running(p)) =>
         TreeAt(fs, PkgDir) = TreeAt(AtStart(p), PkgDir)
    /\ (procs[p].kind = "js" /\ Done(p)) =>
         TreeAt(AtExit(p), PkgDir) = TreeAt(AtStart(p), PkgDir)
    /\ (procs[p].kind = "sh" /\ ShHasClone(p)) =>
         TreeAt(fs, procs[p].tmpdir \o <<"repo">>) = GitClone(remote)

\* install.sh has copied the second of two skills and not yet reported it; the
\* clone still holds both
C17_Witness ==
  \E p \in Procs :
    /\ procs[p].kind = "sh" /\ procs[p].pc = "sh_log" /\ procs[p].idx = 2
    /\ IsDir(fs, procs[p].target \o <<"beta">>)
    /\ ChildDirs(fs, procs[p].tmpdir \o <<"repo", "skills">>) = {"alpha", "beta"}

\* a component of the destination root of run p existed as a file at start
RootBlocked(p) ==
  \E q \in Prefixes(procs[p].target) : IsFile(AtStart(p), q)
\* the positions right after the creation step
AfterMkdir == {"js_banner", "sh_banner"}

\* C18: right after the creation step the destination root is a directory,
\* whether or not it or its parents existed before, and everything that
\* existed at start is still there unchanged; the step fails only when a
\* component of the destination root is a file; a run with a valid payload
\* whose destination root was resolved and is not blocked that way ends with
\* the root present.
C18_RootCreation ==
  \A p \in Procs :
    /\ procs[p].pc \in AfterMkdir =>
         /\ IsDir(fs, procs[p].target)
         /\ \A q \in DOMAIN AtStart(p) : q \in DOMAIN fs /\ fs[q] = AtStart(p)[q]
         /\ \A q \in DOMAIN fs \ DOMAIN AtStart(p) :
              q \in Prefixes(procs[p].target) \/ IsPrefix(procs[p].tmpdir, q)
    /\ (Done(p) /\ MkdirFailed(p)) => RootBlocked(p)
    /\ ( /\ Done(p) /\ Located(p) /\ PayloadDirs(p) # {}
         /\ procs[p].target # Unset /\ ~RootBlocked(p) ) => RootPresent(p)

\* the creation step has just succeeded where neither the destination root nor
\* its parent existed
C18_Witness ==
  \E p \in Procs :
    /\ procs[p].pc \in AfterMkdir
    /\ ~Exists(AtStart(p), Parent(procs[p].target))
    /\ IsDir(fs, Parent(procs[p].target))
    /\ IsDir(fs, procs[p].target)

\* C19 (states): a run that ended with a non-zero status wrote an error
\* message, a run that wrote an error message ended with a non-zero status,
\* and a process that has written an error message is at its exit.
C19_ErrorReported ==
  \A p \in Procs :
    /\ (Done(p) /\ procs[p].status # 0) => Len(procs[p].err) = 1
    /\ (Done(p) /\ procs[p].status = 0) => procs[p].err = <<>>
    /\ procs[p].err # <<>> => procs[p].pc \in {"sh_exit", "done"}
\* C19 (steps): after its error message a run writes no further output, counts
\* no skill and changes the filesystem only by removing its temporary directory.
C19_NothingAfterFailure ==
  \A p \in Procs :
    (Running(p) /\ procs[p].err # <<>>) =>
      /\ procs'[p].pc = "done"
      /\ procs'[p].out = procs[p].out
      /\ procs'[p].installed = procs[p].installed
      /\ procs'[p].status # 0
      /\ fs' = Remove(fs, procs[p].tmpdir)
\* C19: no silent failure. Every run with a non-zero status has written an
\* error message before exiting, and no failed step is followed by further
\* installation steps.
C19_NoSilentFailure == []C19_ErrorReported /\ [][C19_NothingAfterFailure]_vars

\* the clone failed: one message on standard error, status 128, only the two
\* lines before the clone on standard output, no destination root created
C19_Witness ==
  \E p \in Procs :
    /\ Done(p) /\ CloneFailed(p) /\ procs[p].status = 128
    /\ Len(procs[p].out) = 2
    /\ ~Exists(AtExit(p), procs[p].target)

\* tree t is present below directory d of filesystem f
Contains(f, d, t) == \A r \in DOMAIN t : d \o r \in DOMAIN f /\ f[d \o r] = t[r]
\* the copy of skill number j of run p has completed: its payload tree is at
\* its destination (for cp -r onto an existing directory, one level below)
Copied(p, j) ==
  \/ Contains(fs, SkillDest(p, j), PayloadSkill(p, procs[p].skills[j]))
  \/ /\ procs[p].kind = "sh"
     /\ Contains(fs, SkillDest(p, j) \o <<procs[p].skills[j]>>,
                 PayloadSkill(p, procs[p].skills[j]))
InLoop(p) == procs[p].pc \in {"js_loop", "sh_loop"}
AtLog(p) == procs[p].pc \in {"js_log", "sh_log"}

\* C20 (states): between two copies the skills before the current one are all
\* copied and reported, in enumeration order, and nothing else is reported;
\* when a progress line is about to be written, the skill it names is copied
\* and the skills before it are reported.
C20_InOrder ==
  \A p \in Procs :
    (InLoop(p) \/ AtLog(p)) =>
      /\ ReportedNames(p) = SubSeq(procs[p].skills, 1, procs[p].idx - 1)
      /\ procs[p].installed = procs[p].idx - 1
      /\ \A j \in 1..(procs[p].idx - 1) : Copied(p, j)
      /\ AtLog(p) => Copied(p, procs[p].idx)
\* C20 (steps): a step that writes under the destination of a skill is the
\* copy of the current skill, taken between two iterations; a step that writes
\* a progress line names the current skill, whose copy has completed, and
\* copies nothing.
C20_OneAtATime ==
  \A p \in Procs :
    /\ \A j \in 1..Len(procs[p].skills) :
         ( /\ InLoop(p) \/ AtLog(p)
           /\ TreeAt(fs', SkillDest(p, j)) # TreeAt(fs, SkillDest(p, j)) )
         => (InLoop(p) /\ j = procs[p].idx)
    /\ (Running(p) /\ Len(ProgressLines(p)') > Len(ProgressLines(p))) =>
         /\ AtLog(p) /\ Copied(p, procs[p].idx)
         /\ ProgressLines(p)' = Append(ProgressLines(p),
                                       ProgressLines(p)'[Len(ProgressLines(p)')])
         /\ ProgressLines(p)'[Len(ProgressLines(p)')][2] = procs[p].skills[procs[p].idx]
         /\ fs' = fs
\* C20: sequential processing. Within a run a skill's copy starts only after
\* the previous skill is copied and reported, a progress line is written only
\* after its skill's copy has completed, and one copy is made at a time.
C20_Sequential == []C20_InOrder /\ [][C20_OneAtATime]_vars

\* the second skill has been copied after the first was copied and reported,
\* and is not yet reported
C20_Witness ==
  \E p \in Procs :
    /\ AtLog(p) /\ procs[p].idx = 2
    /\ ReportedNames(p) = <<procs[p].skills[1]>>
    /\ ~Exists(AtStart(p), SkillDest(p, 2))
    /\ Copied(p, 1) /\ Copied(p, 2)

\* the positions of the two scripts in program order
PcOrder ==
  <<"idle", "js_resolve", "js_exists", "js_readdir", "js_mkdir", "js_banner",
    "sh_args", "sh_target", "sh_mktemp", "sh_echo", "sh_clone", "sh_mkdir",
    "sh_banner", "sh_glob", "js_loop", "sh_loop", "js_log", "sh_log",
    "sh_exit", "done">>
PcIndex(pc) == CHOOSE i \in 1..Len(PcOrder) : PcOrder[i] = pc
NoRepeat(a) == \A i, j \in 1..Len(a) : a[i] = a[j] => i = j

\* C21 as stated: the clone is attempted at most once, no name is the object
\* of two copy attempts, and every copy attempt is for a directory of the
\* payload source.
C21_Original ==
  \A p \in Procs :
    /\ procs[p].fetches <= 1
    /\ NoRepeat(procs[p].tried)
    /\ Range(procs[p].tried) \subseteq PayloadDirs(p)

\* C21 (states): the clone is attempted at most once; the copy attempts are
\* the first entries of the enumeration, one attempt each; every attempt is
\* for an enumerated payload directory, except that install.sh, when it
\* enumerates none, makes one attempt on the unexpanded pattern.
C21_AtMostOnce ==
  \A p \in Procs :
    /\ procs[p].fetches <= 1
    /\ procs[p].kind = "js" => procs[p].fetches = 0
    /\ NoRepeat(procs[p].tried)
    /\ procs[p].tried = SubSeq(procs[p].skills, 1, Len(procs[p].tried))
    /\ \/ Range(procs[p].tried) \subseteq EnumeratedDirs(p)
       \/ /\ procs[p].kind = "sh" /\ EnumeratedDirs(p) = {}
          /\ procs[p].tried = <<"*">>
\* C21 (steps): every step of a run moves it forward: to the next skill, or
\* to a later position of the script with the same skill, or to the next echo
\* of the group of echoes it is in; no position is entered twice for the same
\* skill.
C21_Advances ==
  \A p \in Procs :
    procs'[p] # procs[p] =>
      \/ procs'[p].idx > procs[p].idx
      \/ /\ procs'[p].idx = procs[p].idx
         /\ PcIndex(procs'[p].pc) > PcIndex(procs[p].pc)
      \/ /\ procs'[p].idx = procs[p].idx
         /\ procs'[p].pc = procs[p].pc
         /\ procs'[p].said > procs[p].said
\* C21 as amended: no retry, bounded work. The fetch is attempted at most
\* once, each enumerated skill directory is the object of at most one copy
\* attempt (install.sh with no directory to enumerate makes one attempt on the
\* unexpanded pattern), and the run ends after at most that many attempts.
C21_NoRetry == []C21_AtMostOnce /\ [][C21_Advances]_vars

\* install.sh has ended after one clone and one copy attempt for each of the
\* two payload skills
C21_Witness ==
  \E p \in Procs :
    /\ Done(p) /\ procs[p].kind = "sh"
    /\ procs[p].fetches = 1
    /\ procs[p].tried = <<"alpha", "beta">>
    /\ PayloadDirs(p) = {"alpha", "beta"}

\* the destination root of a run without --global
ProjectTarget == CwdDir \o <<".claude", "skills">>
\* run p was started without --global
ProjectRun(p) == procs[p].kind # "none" /\ ~Includes(procs[p].argv, "--global")
HomeErrors == {<<"TypeError", "path">>, <<"HOME: unbound variable">>}

\* C22 (states): whatever the values of HOME and USERPROFILE, a run without
\* --global has the working directory's .claude/skills as destination root,
\* never fails for a missing home, prints no other path, and leaves the tree
\* under the home directory as it was.
C22_HomeNotUsed ==
  \A p \in Procs :
    ProjectRun(p) =>
      /\ procs[p].pc \notin PreResolve => procs[p].target = ProjectTarget
      /\ \A i \in 1..Len(procs[p].err) : procs[p].err[i] \notin HomeErrors
      /\ \A i \in 1..Len(procs[p].out) :
           IsPathLine(procs[p].out[i]) => procs[p].out[i][2] = ProjectTarget
      /\ Running(p) => TreeAt(fs, HomeDir) = TreeAt(AtStart(p), HomeDir)
      /\ Done(p) => TreeAt(AtExit(p), HomeDir) = TreeAt(AtStart(p), HomeDir)
\* C22 (steps): the step that resolves the destination root of a run without
\* --global has one outcome, in which no environment variable occurs.
C22_ResolveWithoutHome ==
  \A p \in Procs :
    ( /\ ProjectRun(p) /\ procs[p].pc \in {"js_resolve", "sh_target"}
      /\ procs'[p] # procs[p] ) =>
      /\ procs'[p] = [procs[p] EXCEPT
                        !.isGlobal = FALSE, !.target = ProjectTarget,
                        !.pc = IF procs[p].kind = "js" THEN "js_exists" ELSE "sh_mktemp"]
      /\ fs' = fs
\* C22: the home directory is used only for the global destination. A run
\* without --global resolves the same destination root, and from there has the
\* same tree, output and exit status, whatever the value or presence of the
\* home-directory variables.
C22_HomeOnlyGlobal == []C22_HomeNotUsed /\ [][C22_ResolveWithoutHome]_vars

\* install.sh without --global succeeded with HOME unset
C22_Witness ==
  \E p \in Procs :
    /\ ProjectRun(p) /\ procs[p].kind = "sh" /\ Succeeded(p)
    /\ env.HOME = Unset /\ env.USERPROFILE = Unset
    /\ procs[p].target = ProjectTarget
    /\ procs[p].installed = 2

\* the names of the regular files directly under the payload source
PayloadFiles(p) ==
  {n \in Children(PayloadRepo(p), <<"skills">>) : IsFile(PayloadRepo(p), <<"skills", n>>)}
\* the filesystem a run has produced so far, or left at its exit
FsOf(p) == IF Done(p) THEN AtExit(p) ELSE fs

\* C23: a regular file directly under the payload source is never enumerated
\* as a skill, never the object of a copy, never named by a progress line,
\* never present at the destination root unless it was there before the run,
\* and the reported count of a successful run counts directories only.
C23_FilesAreNotSkills ==
  \A p \in Procs :
    procs[p].kind # "none" =>
      /\ \A n \in PayloadFiles(p) :
           /\ n \notin Range(procs[p].skills)
           /\ n \notin Range(procs[p].tried)
           /\ n \notin Range(ReportedNames(p))
           /\ (procs[p].target # Unset /\ ~Exists(AtStart(p), procs[p].target \o <<n>>))
                => ~Exists(FsOf(p), procs[p].target \o <<n>>)
      /\ Succeeded(p) => procs[p].installed = Cardinality(EnumeratedDirs(p))

\* a run succeeded on a payload source holding two directories and a file:
\* two skills counted, the file not at the destination root
C23_Witness ==
  \E p \in Procs :
    /\ Succeeded(p)
    /\ PayloadFiles(p) = {"README.md"}
    /\ PayloadDirs(p) = {"alpha", "beta"}
    /\ procs[p].installed = 2
    /\ ~Exists(AtExit(p), procs[p].target \o <<"README.md">>)

\* the number of copies of run p that succeeded
CopiesDone(p) == Len(procs[p].tried) - (IF CopyFailed(p) THEN 1 ELSE 0)
\* at the exit of run p the payload tree of its skill number j is at the
\* destination (for cp -r onto an existing directory, one level below)
CopiedAtExit(p, j) ==
  \/ Contains(AtExit(p), SkillDest(p, j), PayloadSkill(p, procs[p].skills[j]))
  \/ /\ procs[p].kind = "sh"
     /\ Contains(AtExit(p), SkillDest(p, j) \o <<procs[p].skills[j]>>,
                 PayloadSkill(p, procs[p].skills[j]))

\* C24: the Done line is on standard output only when every enumerated skill
\* was copied without failure; a run that ended with a non-zero status has no
\* Done line; in every ended run the number of progress lines is the number
\* of copies that succeeded, those skills are at the destination in full, and
\* the skill whose copy failed is not.
C24_SummaryOnlyOnSuccess ==
  \A p \in Procs :
    /\ Len(DoneLines(p)) > 0 =>
         /\ ~CopyFailed(p)
         /\ procs[p].tried = procs[p].skills
         /\ Len(ProgressLines(p)) = Len(procs[p].skills)
    /\ Done(p) =>
         /\ procs[p].status # 0 => DoneLines(p) = <<>>
         /\ procs[p].status = 0 => Len(DoneLines(p)) = 1
         /\ Len(ProgressLines(p)) = CopiesDone(p)
         /\ \A j \in 1..Len(ProgressLines(p)) : CopiedAtExit(p, j)
         /\ (CopyFailed(p) /\ procs[p].skills[procs[p].idx] \in PayloadDirs(p)) =>
              ~CopiedAtExit(p, procs[p].idx)

\* a run ended with a non-zero status after one successful copy and one
\* failed copy: one progress line, no Done line
C24_Witness ==
  \E p \in Procs :
    /\ Done(p) /\ procs[p].status # 0 /\ CopyFailed(p)
    /\ Len(procs[p].tried) = 2
    /\ Len(ProgressLines(p)) = 1
    /\ DoneLines(p) = <<>>

\* the entries directly under the destination root of run p at its start
\* whose name is not the name of a payload skill
Bystanders(p) ==
  IF procs[p].target = Unset THEN {}
  ELSE Children(AtStart(p), procs[p].target) \ PayloadDirs(p)

\* C25: at every point of a run and at its exit, successful or not, every
\* entry that was directly under the destination root before the run and is
\* not named like a payload skill is there with the tree it had.
C25_BystandersUntouched ==
  \A p \in Procs :
    procs[p].kind # "none" =>
      \A n \in Bystanders(p) :
        TreeAt(FsOf(p), procs[p].target \o <<n>>)
          = TreeAt(AtStart(p), procs[p].target \o <<n>>)

\* a successful run has rewritten the skill alpha that was installed before
\* and left the skill other, which is not in the payload, as it was
C25_Witness ==
  \E p \in Procs :
    /\ Succeeded(p)
    /\ Bystanders(p) = {"other"}
    /\ IsDir(AtExit(p), procs[p].target \o <<"other">>)
    /\ TreeAt(AtExit(p), procs[p].target \o <<"alpha">>)
         # TreeAt(AtStart(p), procs[p].target \o <<"alpha">>)

\* the paths at which filesystems f and g differ
Changed(f, g) ==
  {q \in DOMAIN f \cup DOMAIN g :
     ~(q \in DOMAIN f /\ q \in DOMAIN g /\ f[q] = g[q])}
\* path q is at or below the destination of an enumerated payload skill of r
UnderSkillDest(r, q) ==
  \E j \in 1..Len(r.skills) : IsPrefix(r.target \o <<r.skills[j]>>, q)
\* where run r (its record after the step) may have written path q
WriteAllowed(r, q, f) ==
  \/ q \in Prefixes(r.target) /\ q \notin DOMAIN f
  \/ UnderSkillDest(r, q)
  \/ r.tmpdir # Unset /\ IsPrefix(r.tmpdir, q)

\* C26 (steps): every path a step of a run creates, modifies or removes is a
\* missing component of the destination root, or at or below
\* <destination root>/<skill name> for an enumerated skill, or at or below the
\* run's temporary directory.
C26_WritesConfined ==
  \A p \in Procs :
    (Running(p) /\ procs[p].kind # "none") =>
      \A q \in Changed(fs, fs') : WriteAllowed(procs'[p], q, fs)
\* C26 (states): what an ended run has changed lies at the destination root,
\* its formerly missing parents, or the destinations of enumerated skills; no
\* temporary directory is left.
C26_NetEffect ==
  \A p \in Procs :
    Done(p) =>
      \A q \in Changed(AtStart(p), AtExit(p)) :
        \/ q \in Prefixes(procs[p].target) /\ q \notin DOMAIN AtStart(p)
        \/ \E n \in EnumeratedDirs(p) : IsPrefix(procs[p].target \o <<n>>, q)
\* C26: the writes of a run are confined to its destination root and, for
\* install.sh, its temporary directory.
C26_Confined == []C26_NetEffect /\ [][C26_WritesConfined]_vars

\* install.sh has ended having created the destination root with its parent
\* and two skills below it; its temporary directory is gone
C26_Witness ==
  \E p \in Procs :
    /\ Succeeded(p) /\ procs[p].kind = "sh"
    /\ Parent(procs[p].target) \in Changed(AtStart(p), AtExit(p))
    /\ procs[p].target \o <<"beta", "SKILL.md">> \in Changed(AtStart(p), AtExit(p))
    /\ ~Exists(AtExit(p), procs[p].tmpdir)

\* run p is between its mktemp and its end
HoldsTmp(p) == procs[p].kind = "sh" /\ Running(p) /\ procs[p].tmpdir # Unset
\* run p has its temporary directory on disk: from its mktemp until its rm -rf
\* has removed it (the shell ends after that)
OwnsTmp(p) == HoldsTmp(p) /\ procs[p].pc # "sh_end"

\* C27 as stated: two runs of install.sh that are both between mktemp and
\* their end have temporary directories that differ, and the clone of a run
\* that has it on disk is what git made of the delivered snapshot.
C27_Original ==
  /\ \A p, q \in Procs :
       (p # q /\ HoldsTmp(p) /\ HoldsTmp(q)) => procs[p].tmpdir # procs[q].tmpdir
  /\ \A p \in Procs :
       (procs[p].kind = "sh" /\ ShHasClone(p)) =>
         TreeAt(fs, procs[p].tmpdir \o <<"repo">>) = GitClone(remote)

\* C27 (states): two runs of install.sh that both have their temporary
\* directory on disk have different ones, and the clone of a run that has it
\* on disk is what git made of the delivered snapshot, whatever the other run
\* has done meanwhile.
C27_OwnTmpDir ==
  /\ \A p, q \in Procs :
       (p # q /\ OwnsTmp(p) /\ OwnsTmp(q)) => procs[p].tmpdir # procs[q].tmpdir
  /\ \A p \in Procs :
       (procs[p].kind = "sh" /\ ShHasClone(p)) =>
         TreeAt(fs, procs[p].tmpdir \o <<"repo">>) = GitClone(remote)
\* run p is removing entries: the rm -rf of its exit trap, or its git clone
\* taking back what a failed clone had made
Removing(p) == procs[p].pc \in {"sh_exit", "sh_rm", "sh_git_junk"}
\* C27 (steps): the directory mktemp hands to a run did not exist before; every
\* entry a step removes is at or below the temporary directory of a run that
\* is removing, and of no directory another run has on disk; once its rm -rf
\* has ended a run changes nothing any more.
C27_CleanupOwnOnly ==
  /\ \A p \in Procs :
       /\ (procs[p].pc = "sh_mktemp" /\ procs'[p].pc = "sh_echo") =>
            /\ ~Exists(fs, procs'[p].tmpdir)
            /\ IsDir(fs', procs'[p].tmpdir)
       /\ (procs[p].pc = "sh_end" /\ procs'[p].pc # "sh_end") => fs' = fs
  /\ \A q \in DOMAIN fs :
       q \notin DOMAIN fs' =>
         \E p \in Procs :
           /\ Removing(p)
           /\ IsPrefix(procs[p].tmpdir, q)
           /\ \A o \in Procs \ {p} :
                OwnsTmp(o) => ~IsPrefix(procs[o].tmpdir, q)
\* C27 as amended: concurrent runs of install.sh each create their temporary
\* directory freshly; two runs whose temporary directories are on disk at the
\* same time have different ones; the exit-time cleanup of a run removes only
\* its own temporary directory, never the clone the other is copying from.
\* (A path whose directory a run has removed can be handed to the other run
\* before the first has ended.)
C27_ConcurrentTmpDirs == []C27_OwnTmpDir /\ [][C27_CleanupOwnOnly]_vars

\* the rm -rf of one run has ended and its shell has not; the other run has
\* been handed the same path by mktemp and is in its copy loop with its
\* clone on disk
C27_Witness ==
  \E p, q \in Procs :
    /\ p # q /\ procs[p].pc = "sh_end"
    /\ procs[q].tmpdir = procs[p].tmpdir
    /\ procs[q].pc = "sh_log" /\ procs[q].idx = 2
    /\ IsDir(fs, procs[q].tmpdir \o <<"repo", "skills", "beta">>)

====
